---- MODULE Spec2Model ----
(***************************************************************************)
(* Comparison-and-rating subsystem of mc-bench-backend.                    *)
(*                                                                         *)
(*   Spec       the vote path: get_comparison_batch writes pair tokens,    *)
(*              post_comparison consumes them, persists Comparison and     *)
(*              ComparisonRank rows and triggers elo_calculation through   *)
(*              the Redis key elo_calculation_in_progress.                 *)
(*   SpecOne    one post_comparison call by every kind of identity with    *)
(*              every ranking the request type admits.                     *)
(*   FairSpec   the vote path without crashes, with weak fairness on the   *)
(*              steps of requests and workers.                             *)
(*   SpecBatch  get_comparison_batch over a drawn sample catalogue.        *)
(*   SpecGlicko glicko_calculation runs and process_comparison_task        *)
(*              invocations over a drawn set of committed comparisons.     *)
(*   SpecEligible get_comparison_batch over catalogues with deprecated     *)
(*              samples.                                                   *)
(*   SpecRating update_glicko2_rating over ratings and opponent lists.     *)
(*   SpecBoard  the leaderboard read endpoints over tables with tagless    *)
(*              and tagged rows.                                           *)
(*   SpecSkip   the Glicko-2 tasks over comparisons without rank rows or   *)
(*              with a ranked sample that no longer exists.                *)
(*   SpecTags   the Glicko-2 tasks over prompts that carry tags.           *)
(*   SpecSystems elo_calculation workers next to a glicko_calculation run. *)
(*   SpecScheduler SchedulerManager processes on one lock path.            *)
(***************************************************************************)
EXTENDS Integers, Sequences, FiniteSets, TLC

\* ------------------------------------------------------------------ bounds
NSamples == 4          \* rows of sample.sample
NModels == 2           \* rows of specification.model
NCorrs == 2            \* distinct comparison_correlation_id values
MaxTokens == 2         \* pair tokens ever issued (uuid4 values)
MaxReqs == 2           \* post_comparison calls
MaxWorkers == 1        \* celery workers running elo_calculation
MaxPositions == 2      \* length of ordered_sample_ids in a request
MaxTieLen == 2         \* length of one tie group in a request
MaxBatchSize == 2      \* batch_size values tried (the code caps at MAX_BATCH_SIZE)
EloBatchLimit == 1     \* stands for batch_size=1000 of get_unprocessed_rows
MaxProcs == 2          \* celery processes running Glicko-2 tasks
NComparisons == 3      \* committed comparisons the Glicko-2 tasks start from
GlickoBatchLimit == 2  \* stands for .limit(1000) of the unprocessed query
MaxOpponents == 2      \* length of the opponent lists drawn entry by entry
LongOpponents == 16    \* length of the one long opponent list
NTags == 2             \* specification.tag rows
NManagers == 3         \* SchedulerManager processes started on one lock path

\* ------------------------------------------------------- program constants
MAX_BATCH_SIZE == 10

SampleIds == 1..NSamples
ModelIds == 1..NModels
CorrIds == 1..NCorrs
TokenIds == 1..MaxTokens
Reqs == 1..MaxReqs
Workers == 1..MaxWorkers
Procs == 1..MaxProcs
Managers == 1..NManagers

\* sample.test_set rows: id 1 is "Authenticated Test Set", id 2 is
\* "Unauthenticated Test Set"; NoTestSet is a NULL test_set_id.
NoTestSet == 0
AuthenticatedTestSet == 1
UnauthenticatedTestSet == 2
TestSetIds == {AuthenticatedTestSet, UnauthenticatedTestSet}

\* scoring.metric rows
MetricIds == {1, 2}

\* identities of a caller
Identities == {"anon", "voter", "novote", "unknown"}

\* a malformed UUID string in a request
BadUuid == 0

\* a metric_id that names no row of scoring.metric
UnknownMetric == 0

VARIABLES
    sample_rows,        \* sample.sample joined to run and model: SampleIds -> row
                        \* (model, corr, test_set, approved, artifact,
                        \* experimental_state)
    model_leaderboard,  \* scoring.model_leaderboard: set of rows
    use_priority,       \* settings.USE_PRIORITY_COMPARISON
    redis_tokens,       \* Redis keys active_comparison:<token>: token -> payload
    next_token,         \* number of uuid4 tokens drawn so far
    last_batch,         \* the last response of get_comparison_batch
    req,                \* post_comparison calls: Reqs -> record
    comparison,         \* scoring.comparison, committed rows
    comparison_rank,    \* scoring.comparison_rank, committed rows
    next_comparison_id, \* the sequence behind comparison.id
    elo_key,            \* Redis key elo_calculation_in_progress is set
    elo_epoch,          \* how many times the key was deleted or expired
    elo_queue,          \* elo_calculation tasks enqueued and not started
    elo_worker,         \* Workers -> record
    processed_elo,      \* comparisons marked processed for ELO
    glicko_key,         \* Redis key glicko_calculation_in_progress is set
    model_glicko_leaderboard, \* scoring.model_glicko_leaderboard, committed rows
    processed_comparison,     \* scoring.processed_comparison: comparison id -> rows
    applied,            \* comparison id -> committed additions to the counters
    glicko_proc,        \* Procs -> record: a task and its database session
    glicko_rating,      \* a GlickoRating passed through update_glicko2_rating
    leaderboard_response, \* the last response of a leaderboard read endpoint
    lock_path,          \* the inode settings.SCHEDULER_LOCK_PATH names, 0: no file
    inodes,             \* how many lock files were created so far
    flock,              \* inode -> the manager whose open file holds LOCK_EX, or 0
    manager             \* Managers -> record: a SchedulerManager process

catalogVars == <<sample_rows, model_leaderboard, use_priority>>
tokenVars == <<redis_tokens, next_token, last_batch>>
voteVars == <<req, comparison, comparison_rank, next_comparison_id>>
eloVars == <<elo_key, elo_epoch, elo_queue, elo_worker, processed_elo>>
glickoVars == <<glicko_key, model_glicko_leaderboard, processed_comparison, applied,
                glicko_proc>>
ratingVars == <<glicko_rating, leaderboard_response>>
schedulerVars == <<lock_path, inodes, flock, manager>>

Min(a, b) == IF a < b THEN a ELSE b
Max(a, b) == IF a > b THEN a ELSE b

\* ------------------------------------------------- prepared statements
\* The CTE without its test-set condition.
sample_ids_any_test_set(T) ==
    {s \in SampleIds : sample_rows[s].approved}

\* CTE sample_ids: approved samples bound to test set $1.
sample_ids(T) ==
    {s \in SampleIds : sample_rows[s].approved /\ sample_rows[s].test_set = T}

\* CTE correlation_ids of the uniform query: GROUP BY correlation id and
\* model name HAVING COUNT(*) >= 2; one result row per group.
correlation_groups(ids) ==
    {g \in CorrIds \X ModelIds :
        Cardinality({s \in ids :
            sample_rows[s].corr = g[1] /\ sample_rows[s].model = g[2]}) >= 2}

\* LATERAL sample_1: any approved sample of the correlation id.
sample_1_candidates(ids, c) ==
    {s \in ids : sample_rows[s].corr = c}

\* LATERAL sample_2 without its model condition.
sample_2_any_model(ids, c, s1) ==
    {s \in ids : sample_rows[s].corr = c /\ s # s1}

\* LATERAL sample_2: same correlation id, another sample, another model.
sample_2_candidates(ids, c, s1) ==
    {s \in ids :
        /\ sample_rows[s].corr = c
        /\ s # s1
        /\ sample_rows[s].model # sample_rows[s1].model}

\* The final joins to sample.artifact keep a row only when both samples
\* have a RENDERED_MODEL_GLB_COMPARISON_SAMPLE artifact.
has_artifacts(s1, s2) == sample_rows[s1].artifact /\ sample_rows[s2].artifact

\* ---- COMPARISON_BATCH_QUERY_PRIORITY
NoTag == 0

\* specification.tag rows; tag_id NULL is NoTag
TagIds == 1..NTags

\* CTE avg_votes reads these rows: test_set_id = $1 AND tag_id IS NULL.
avg_votes_rows(T) ==
    {r \in model_leaderboard : r.test_set = T /\ r.tag = NoTag}

RECURSIVE SumVotes(_)
SumVotes(rows) ==
    IF rows = {} THEN 0
    ELSE LET r == CHOOSE x \in rows : TRUE
         IN  r.vote_count + SumVotes(rows \ {r})

\* CTE model_priorities: specification.model LEFT JOIN model_leaderboard;
\* a model with no matching row yields one row with vote_count NULL -> 0.
model_priorities(T) ==
    LET rows == avg_votes_rows(T)
    IN  UNION {
          LET ml == {r \in rows : r.model = m}
          IN  IF ml = {}
              THEN {[model |-> m, metric |-> 0, vote_count |-> 0]}
              ELSE {[model |-> m, metric |-> r.metric, vote_count |-> r.vote_count] : r \in ml}
          : m \in ModelIds}

\* The CASE of priority_score, in hundredths; random() is one of the two
\* ends of its range.  n rows with S votes in all: avg_vote_count = S / n.
priority_scores(n, S, v) ==
    IF v = 0 THEN {20000}
    ELSE IF 10 * v * n < S
    THEN {15000 + j + (100 - ((1000 * v * n) \div S)) : j \in {0, 999}}
    ELSE IF 10 * v * n < 9 * S
    THEN {5000 + j + (100 - ((1000 * v * n) \div (9 * S))) : j \in {0, 999}}
    ELSE IF 100 * v * n < 99 * S
    THEN {1000 + j + (100 - ((10000 * v * n) \div (99 * S))) : j \in {0, 499}}
    ELSE IF S >= n
    THEN {100 - ((100 * v * n) \div S)}
    ELSE {100 - 100 * v}

\* One evaluation of the CTE: a priority_score and a use_priority flag
\* (random() < 0.8) per row.
priority_draws(T, mp) ==
    LET rows == avg_votes_rows(T)
        n == Cardinality(rows)
        S == SumVotes(rows)
        scores == UNION {priority_scores(n, S, r.vote_count) : r \in mp}
    IN  {d \in [mp -> [score : scores, use_priority : BOOLEAN]] :
            \A r \in mp : d[r].score \in priority_scores(n, S, r.vote_count)}

model_priority_rows(mp, m) == {r \in mp : r.model = m}

RECURSIVE SumScores(_, _)
SumScores(rows, d) ==
    IF rows = {} THEN 0
    ELSE LET r == CHOOSE x \in rows : TRUE
         IN  d[r].score + SumScores(rows \ {r}, d)

\* correlation_ids of the priority query: the join to model_priorities
\* repeats every sample once per model_priorities row of its model.
correlation_groups_priority(ids, mp) ==
    {g \in CorrIds \X ModelIds :
        Cardinality({s \in ids :
            sample_rows[s].corr = g[1] /\ sample_rows[s].model = g[2]})
          * Cardinality(model_priority_rows(mp, g[2])) >= 2}

\* ORDER BY CASE WHEN bool_or(use_priority) THEN avg(priority_score) ELSE 0 END
group_order_key(mp, g, d) ==
    LET rows == model_priority_rows(mp, g[2])
    IN  IF \E r \in rows : d[r].use_priority
        THEN SumScores(rows, d) \div Cardinality(rows)
        ELSE 0

\* ORDER BY random() LIMIT $2
limit_random(G, k) ==
    LET n == Min(k, Cardinality(G))
    IN  {S \in SUBSET G : Cardinality(S) = n}

\* ORDER BY <key> DESC, random() LIMIT $2
limit_by_key(mp, G, k, d) ==
    LET key == [g \in G |-> group_order_key(mp, g, d)]
    IN  {S \in limit_random(G, k) : \A a \in S : \A b \in G \ S : key[a] >= key[b]}

\* A scalar subquery over model_priorities (or model_leaderboard) for one
\* model fails when it finds more than one row.
subquery_fails(mp, m) == Cardinality(model_priority_rows(mp, m)) > 1

model_priority_score(mp, m, d) ==
    LET r == CHOOSE x \in model_priority_rows(mp, m) : TRUE IN d[r].score

\* LATERAL sample_2 of the priority query:
\* ORDER BY priority_score(model) DESC, random() LIMIT 1
sample_2_priority(ids, mp, c, s1, d) ==
    LET cands == sample_2_candidates(ids, c, s1)
        score == [s \in cands |-> model_priority_score(mp, sample_rows[s].model, d)]
    IN  {s \in cands : \A o \in cands : score[s] >= score[o]}

\* What one selected correlation id contributes in the uniform query: the
\* sample_1 drawn, and the pair when both inner joins (sample_2, artifacts)
\* find a row.
row_outcomes(ids, c) ==
    UNION {
        LET s2s == sample_2_candidates(ids, c, s1)
        IN  IF s2s = {} THEN {[kept |-> FALSE, fails |-> FALSE, row |-> <<s1, s1>>]}
            ELSE {[kept |-> has_artifacts(s1, s2), fails |-> FALSE, row |-> <<s1, s2>>]
                    : s2 \in s2s}
        : s1 \in sample_1_candidates(ids, c)}

\* The same in the priority query.  Its scalar subqueries run for the model
\* of every sample_2 candidate (the ORDER BY key) and for both models of a
\* returned row (the select list).
row_outcomes_priority(ids, mp, c, d) ==
    UNION {
        LET cands == sample_2_candidates(ids, c, s1)
            sorting == \E s \in cands : subquery_fails(mp, sample_rows[s].model)
        IN  IF cands = {} THEN {[kept |-> FALSE, fails |-> FALSE, row |-> <<s1, s1>>]}
            ELSE IF sorting THEN {[kept |-> FALSE, fails |-> TRUE, row |-> <<s1, s1>>]}
            ELSE {[kept |-> has_artifacts(s1, s2),
                   fails |-> /\ has_artifacts(s1, s2)
                             /\ subquery_fails(mp, sample_rows[s1].model),
                   row |-> <<s1, s2>>]
                    : s2 \in sample_2_priority(ids, mp, c, s1, d)}
        : s1 \in sample_1_candidates(ids, c)}

group_rank(g) == g[1] * (NModels + 1) + g[2]

\* The result sets over the selected groups S, outcome(g) being what a
\* group can contribute: the rows, or an error.
RECURSIVE result_sets(_, _)
result_sets(S, outcome) ==
    IF S = {} THEN {[error |-> FALSE, rows |-> <<>>]}
    ELSE LET g == CHOOSE x \in S : \A y \in S : group_rank(x) <= group_rank(y)
             rest == result_sets(S \ {g}, outcome)
         IN  {IF o.fails \/ r.error THEN [error |-> TRUE, rows |-> <<>>]
              ELSE [error |-> FALSE,
                    rows |-> (IF o.kept THEN <<o.row>> ELSE <<>>) \o r.rows]
                : o \in outcome[g], r \in rest}

\* EXECUTE comparison_batch_query($1, $2): the possible result sets.
COMPARISON_BATCH_QUERY(T, k) ==
    LET ids == sample_ids(T)
        G == correlation_groups(ids)
        outcome == [g \in G |-> row_outcomes(ids, g[1])]
    IN  UNION {result_sets(S, outcome) : S \in limit_random(G, k)}

\* EXECUTE comparison_batch_query_priority($1, $2)
COMPARISON_BATCH_QUERY_PRIORITY(T, k) ==
    LET ids == sample_ids(T)
        mp == model_priorities(T)
        G == correlation_groups_priority(ids, mp)
    IN  UNION {
          LET outcome == [g \in G |-> row_outcomes_priority(ids, mp, g[1], d)]
          IN  UNION {result_sets(S, outcome) : S \in limit_by_key(mp, G, k, d)}
          : d \in priority_draws(T, mp)}

\* ------------------------------------------------ get_comparison_batch
\* select(TestSet.id).where(TestSet.name == ...) for the caller's category
default_test_set(identity) ==
    IF identity = "anon" THEN UnauthenticatedTestSet ELSE AuthenticatedTestSet

execute_batch_query(T, k) ==
    IF use_priority THEN COMPARISON_BATCH_QUERY_PRIORITY(T, k)
    ELSE COMPARISON_BATCH_QUERY(T, k)

NoBatch ==
    [status |-> 0, identity |-> "none", test_set |-> NoTestSet, metric |-> 0,
     priority |-> FALSE, rows |-> <<>>]

\* an HTTPException: the response carries the status code only
BatchFailed(code) ==
    /\ last_batch' = [NoBatch EXCEPT !.status = code]
    /\ UNCHANGED <<redis_tokens, next_token>>

token_payload(metric, row) == [metric |-> metric, s1 |-> row[1], s2 |-> row[2]]

get_comparison_batch(identity, batch_size, metric) ==
    LET T == default_test_set(identity) IN
    /\ IF identity = "unknown" THEN BatchFailed(404)
       ELSE IF batch_size > MAX_BATCH_SIZE THEN BatchFailed(406)
       ELSE IF metric \notin MetricIds THEN BatchFailed(400)
       ELSE \E res \in execute_batch_query(T, batch_size) :
            IF res.error THEN BatchFailed(500)
            ELSE /\ next_token + Len(res.rows) <= MaxTokens
                 /\ redis_tokens' =
                      [t \in DOMAIN redis_tokens \cup
                             (next_token + 1)..(next_token + Len(res.rows)) |->
                          IF t \in DOMAIN redis_tokens THEN redis_tokens[t]
                          ELSE token_payload(metric, res.rows[t - next_token])]
                 /\ next_token' = next_token + Len(res.rows)
                 /\ last_batch' = [status |-> 200, identity |-> identity,
                                   test_set |-> T, metric |-> metric,
                                   priority |-> use_priority,
                                   rows |-> res.rows]
    /\ UNCHANGED <<catalogVars, voteVars, eloVars, glickoVars,
                   ratingVars, schedulerVars>>

\* Redis expires active_comparison:<token> after its 3600 s
ExpireToken(t) ==
    /\ t \in DOMAIN redis_tokens
    /\ redis_tokens' = [x \in DOMAIN redis_tokens \ {t} |-> redis_tokens[x]]
    /\ UNCHANGED <<next_token, last_batch, catalogVars, voteVars, eloVars, glickoVars,
                   ratingVars, schedulerVars>>

\* ------------------------------------------------------ post_comparison
\* One entry of ordered_sample_ids: a single id, or a list of ids (a tie).
Single(x) == [is_list |-> FALSE, ids |-> <<x>>]
TieGroup(q) == [is_list |-> TRUE, ids |-> q]

\* for ranked_sample_id_str in sample_or_samples: the ids of one tie group
\* are checked against processed_sample_ids as it was before the group.
RECURSIVE rank_tie_group(_, _, _, _)
rank_tie_group(ids, rank, valid_sample_ids, processed_sample_ids) ==
    IF ids = <<>> THEN [status |-> 0, ranks |-> <<>>, current_rank_ids |-> {}]
    ELSE LET x == Head(ids) IN
         IF x = BadUuid \/ x \notin valid_sample_ids \/ x \in processed_sample_ids
         THEN [status |-> 400, ranks |-> <<>>, current_rank_ids |-> {}]
         ELSE LET rest == rank_tie_group(Tail(ids), rank, valid_sample_ids,
                                         processed_sample_ids)
              IN  [status |-> rest.status,
                   ranks |-> <<[rank |-> rank, sample |-> x]>> \o rest.ranks,
                   current_rank_ids |-> {x} \cup rest.current_rank_ids]

\* for idx, sample_or_samples in enumerate(request.ordered_sample_ids)
RECURSIVE rank_positions(_, _, _, _)
rank_positions(ordered, idx, valid_sample_ids, processed_sample_ids) ==
    IF idx > Len(ordered)
    THEN [status |-> 0, ranks |-> <<>>, processed |-> processed_sample_ids]
    ELSE LET here == rank_tie_group(ordered[idx].ids, idx, valid_sample_ids,
                                    processed_sample_ids)
         IN  IF here.status # 0
             THEN [status |-> 400, ranks |-> <<>>, processed |-> processed_sample_ids]
             ELSE LET rest == rank_positions(ordered, idx + 1, valid_sample_ids,
                                  processed_sample_ids \cup here.current_rank_ids)
                  IN  [status |-> rest.status,
                       ranks |-> here.ranks \o rest.ranks,
                       processed |-> rest.processed]

\* The validation of the submitted ranking: 400, or the (rank, sample) list.
validate_ranks(ordered, sample_1_id, sample_2_id) ==
    LET valid_sample_ids == {sample_1_id, sample_2_id}
        walked == rank_positions(ordered, 1, valid_sample_ids, {})
    IN  IF walked.status # 0 THEN [status |-> 400, ranks |-> <<>>]
        ELSE IF walked.processed # valid_sample_ids
        THEN [status |-> 400, ranks |-> <<>>]
        ELSE [status |-> 0, ranks |-> walked.ranks]

\* select(Sample).where(Sample.comparison_sample_id.in_([sample_1_id, sample_2_id]))
fetch_samples(sample_1_id, sample_2_id) ==
    {s \in SampleIds : s \in {sample_1_id, sample_2_id}}

\* A handler that lets every known caller vote.
can_vote_any(identity) == TRUE

\* PERM.VOTING.VOTE in user.scopes; anonymous callers default to True
can_vote(identity) == identity \in {"anon", "voter"}

IdleReq ==
    [pc |-> "idle", identity |-> "none", token |-> 0, s1 |-> 0, s2 |-> 0,
     metric |-> 0, ranks |-> <<>>, flattened |-> "none", cid |-> 0,
     trigger |-> "none", epoch |-> 0, status |-> 0, names |-> <<>>]

Finish(r, code) ==
    req' = [req EXCEPT ![r].pc = "done", ![r].status = code, ![r].ranks = <<>>]

\* A plain GET in place of GETDEL leaves the key for the next caller.
get_keep(tokens, token) == tokens

\* redis.getdel(f"active_comparison:{token}"): the keys left after the call
getdel(tokens, token) == [x \in DOMAIN tokens \ {token} |-> tokens[x]]

\* lines 251-314: identity, redis.getdel of the token, parsing, sample lookup
PostGetDel(r, identity, token) ==
    /\ req[r].pc = "idle"
    /\ IF identity = "unknown"
       THEN /\ req' = [req EXCEPT ![r].pc = "done", ![r].status = 404,
                                  ![r].identity = identity, ![r].token = token]
            /\ UNCHANGED redis_tokens
       ELSE IF token \notin DOMAIN redis_tokens
       THEN /\ req' = [req EXCEPT ![r].pc = "done", ![r].status = 404,
                                  ![r].identity = identity, ![r].token = token]
            /\ UNCHANGED redis_tokens
       ELSE LET payload == redis_tokens[token] IN
            /\ redis_tokens' = getdel(redis_tokens, token)
            /\ IF Cardinality(fetch_samples(payload.s1, payload.s2)) # 2
               THEN req' = [req EXCEPT ![r].pc = "done", ![r].status = 404,
                                       ![r].identity = identity, ![r].token = token,
                                       ![r].s1 = payload.s1, ![r].s2 = payload.s2]
               ELSE req' = [req EXCEPT ![r].pc = "ranks",
                                       ![r].identity = identity, ![r].token = token,
                                       ![r].s1 = payload.s1, ![r].s2 = payload.s2,
                                       ![r].metric = payload.metric]
    /\ UNCHANGED <<next_token, last_batch, comparison, comparison_rank,
                   next_comparison_id, catalogVars, eloVars, glickoVars,
                   ratingVars, schedulerVars>>

\* How often id x occurs in the flattened ordered_sample_ids
RECURSIVE occurrences(_, _)
occurrences(ordered, x) ==
    IF ordered = <<>> THEN 0
    ELSE Cardinality({j \in DOMAIN Head(ordered).ids : Head(ordered).ids[j] = x})
           + occurrences(Tail(ordered), x)

RECURSIVE flat_len(_)
flat_len(ordered) ==
    IF ordered = <<>> THEN 0
    ELSE Len(Head(ordered).ids) + flat_len(Tail(ordered))

\* The flattened ranking is, as a multiset, exactly {sample_1_id, sample_2_id}
same_multiset(ordered, sample_1_id, sample_2_id) ==
    /\ flat_len(ordered) = 2
    /\ occurrences(ordered, sample_1_id) = 1
    /\ occurrences(ordered, sample_2_id) = 1

\* The bodies a client can send for a token whose pair is (s1, s2): the two
\* ids, another sample id and a malformed id, singly or in tie groups.
request_ids(s1, s2) ==
    {s1, s2, BadUuid} \cup
    (LET others == SampleIds \ {s1, s2}
     IN  IF others = {} THEN {} ELSE {CHOOSE o \in others : \A p \in others : o <= p})

tie_groups(ids) ==
    UNION {[1..n -> ids] : n \in 0..MaxTieLen}

request_entries(ids) ==
    {Single(x) : x \in ids} \cup {TieGroup(q) : q \in tie_groups(ids)}

ordered_sample_ids(s1, s2) ==
    UNION {[1..n -> request_entries(request_ids(s1, s2))] : n \in 0..MaxPositions}

\* lines 317-377: the ranking is validated, then the metric and the test
\* set of the two samples are checked
PostRanks(r, ordered) ==
    /\ req[r].pc = "ranks"
    /\ LET checked == validate_ranks(ordered, req[r].s1, req[r].s2)
           test_set_id == sample_rows[req[r].s1].test_set
           same == IF same_multiset(ordered, req[r].s1, req[r].s2)
                   THEN "same" ELSE "differs"
       IN  IF checked.status # 0
           THEN req' = [req EXCEPT ![r].pc = "done", ![r].status = 400,
                                   ![r].flattened = same]
           ELSE IF req[r].metric \notin MetricIds
           THEN req' = [req EXCEPT ![r].pc = "done", ![r].status = 500,
                                   ![r].flattened = same]
           ELSE IF test_set_id = NoTestSet
                   \/ test_set_id # sample_rows[req[r].s2].test_set
           THEN req' = [req EXCEPT ![r].pc = "done", ![r].status = 500,
                                   ![r].flattened = same]
           ELSE req' = [req EXCEPT ![r].pc = IF can_vote(req[r].identity)
                                             THEN "flush" ELSE "return",
                                   ![r].ranks = checked.ranks,
                                   ![r].flattened = same]
    /\ UNCHANGED <<tokenVars, comparison, comparison_rank, next_comparison_id,
                   catalogVars, eloVars, glickoVars,
                   ratingVars, schedulerVars>>

\* lines 383-402: the Comparison and its ComparisonRank rows are flushed
\* inside the request's transaction; the id comes from the sequence
PostFlush(r) ==
    /\ req[r].pc = "flush"
    /\ req' = [req EXCEPT ![r].pc = "setnx", ![r].cid = next_comparison_id]
    /\ next_comparison_id' = next_comparison_id + 1
    /\ UNCHANGED <<tokenVars, comparison, comparison_rank, catalogVars, eloVars, glickoVars,
                   ratingVars, schedulerVars>>

\* A SET without nx succeeds whether or not the key exists.
set_plain(present) == TRUE

\* redis.set("elo_calculation_in_progress", "1", ex=300, nx=True)
set_nx(present) == ~present

\* line 406: the trigger; SET NX is one Redis command
PostSetNx(r) ==
    /\ req[r].pc = "setnx"
    /\ IF set_nx(elo_key)
       THEN /\ elo_key' = TRUE
            /\ req' = [req EXCEPT ![r].pc = "send", ![r].trigger = "SET",
                                  ![r].epoch = elo_epoch]
       ELSE /\ UNCHANGED elo_key
            /\ req' = [req EXCEPT ![r].pc = "return", ![r].trigger = "SKIPPED",
                                  ![r].epoch = elo_epoch]
    /\ UNCHANGED <<tokenVars, comparison, comparison_rank, next_comparison_id,
                   catalogVars, elo_epoch, elo_queue, elo_worker, processed_elo,
                   glickoVars,
                   ratingVars, schedulerVars>>

\* line 408: send_task("elo_calculation")
PostSendTask(r) ==
    /\ req[r].pc = "send"
    /\ elo_queue' = elo_queue + 1
    /\ req' = [req EXCEPT ![r].pc = "return", ![r].trigger = "ENQUEUED"]
    /\ UNCHANGED <<tokenVars, comparison, comparison_rank, next_comparison_id,
                   catalogVars, elo_key, elo_epoch, elo_worker, processed_elo,
                   glickoVars,
                   ratingVars, schedulerVars>>

\* lines 412-419: an exception inside the try block, raised by a flush
\* (lines 391, 402) or by the Redis or broker call (lines 406, 408):
\* db.rollback(), then 500
PostError(r) ==
    /\ req[r].pc \in {"flush", "setnx", "send"}
    /\ Finish(r, 500)
    /\ UNCHANGED <<tokenVars, comparison, comparison_rank, next_comparison_id,
                   catalogVars, eloVars, glickoVars,
                   ratingVars, schedulerVars>>

comparison_row(r) ==
    [id |-> req[r].cid, identity |-> req[r].identity, metric |-> req[r].metric,
     test_set |-> sample_rows[req[r].s1].test_set]

\* A handler that adds the ComparisonRank row of the first entry only.
first_rank_row(r) ==
    {[comparison_id |-> req[r].cid, n |-> i, sample |-> req[r].ranks[i].sample,
      rank |-> req[r].ranks[i].rank] : i \in 1..Min(1, Len(req[r].ranks))}

\* n stands for the row's own id: the order of the db.add calls
rank_rows(r) ==
    {[comparison_id |-> req[r].cid, n |-> i, sample |-> req[r].ranks[i].sample,
      rank |-> req[r].ranks[i].rank] : i \in 1..Len(req[r].ranks)}

\* lines 421-425: the model names are returned and the managed session
\* commits what the request flushed
PostReturn(r) ==
    /\ req[r].pc = "return"
    /\ req' = [req EXCEPT ![r].pc = "done", ![r].status = 200, ![r].ranks = <<>>,
                          ![r].names = <<sample_rows[req[r].s1].model,
                                         sample_rows[req[r].s2].model>>]
    /\ IF req[r].cid # 0
       THEN /\ comparison' = comparison \cup {comparison_row(r)}
            /\ comparison_rank' = comparison_rank \cup rank_rows(r)
       ELSE UNCHANGED <<comparison, comparison_rank>>
    /\ UNCHANGED <<tokenVars, next_comparison_id, catalogVars, eloVars, glickoVars,
                   ratingVars, schedulerVars>>

\* -------------------------------------------------------- elo_calculation
IdleWorker == [pc |-> "idle", rows |-> <<>>]

comparison_ids == {c.id : c \in comparison}

\* get_unprocessed_rows(db, batch_size=1000): the earliest unprocessed
\* comparisons, at most a batch of them
RECURSIVE earliest(_, _)
earliest(ids, k) ==
    IF ids = {} \/ k = 0 THEN <<>>
    ELSE LET c == CHOOSE x \in ids : \A y \in ids : x <= y
         IN  <<c>> \o earliest(ids \ {c}, k - 1)

\* one marker table for both rating systems
get_unprocessed_shared(batch_size) ==
    earliest({c \in comparison_ids \ processed_elo : processed_comparison[c] = 0},
             batch_size)

get_unprocessed_rows(batch_size) ==
    earliest(comparison_ids \ processed_elo, batch_size)

\* update_leaderboard for one comparison: the tag-less model_leaderboard row
\* of every model that took part counts one more vote
update_leaderboard(leaderboard, c) ==
    LET row == CHOOSE x \in comparison : x.id = c
        models == {sample_rows[k.sample].model :
                      k \in {x \in comparison_rank : x.comparison_id = c}}
        touched(x) == /\ x.model \in models /\ x.metric = row.metric
                      /\ x.test_set = row.test_set /\ x.tag = NoTag
        missing == {m \in models : ~\E x \in leaderboard : touched(x) /\ x.model = m}
    IN  {IF touched(x) THEN [x EXCEPT !.vote_count = @ + 1] ELSE x : x \in leaderboard}
        \cup {[model |-> m, metric |-> row.metric, test_set |-> row.test_set,
               tag |-> NoTag, vote_count |-> 1] : m \in missing}

RECURSIVE write_leader_leaderboard(_, _)
write_leader_leaderboard(leaderboard, rows) ==
    IF rows = <<>> THEN leaderboard
    ELSE write_leader_leaderboard(update_leaderboard(leaderboard, Head(rows)), Tail(rows))

\* a worker takes the task from the queue
EloStart(w) ==
    /\ elo_worker[w].pc = "idle"
    /\ elo_queue > 0
    /\ elo_queue' = elo_queue - 1
    /\ elo_worker' = [elo_worker EXCEPT ![w].pc = "read"]
    /\ UNCHANGED <<tokenVars, voteVars, catalogVars, elo_key, elo_epoch, processed_elo,
                   glickoVars,
                   ratingVars, schedulerVars>>

\* lines 24-25: the batch of unprocessed rows is read
EloRead(w) ==
    /\ elo_worker[w].pc = "read"
    /\ elo_worker' = [elo_worker EXCEPT ![w].pc = "process",
                                        ![w].rows = get_unprocessed_rows(EloBatchLimit)]
    /\ UNCHANGED <<tokenVars, voteVars, catalogVars, elo_key, elo_epoch, elo_queue,
                   processed_elo,
                   glickoVars,
                   ratingVars, schedulerVars>>

\* lines 27-40: the leaderboard is updated, the rows are marked processed and
\* the managed session commits
EloProcess(w) ==
    /\ elo_worker[w].pc = "process"
    /\ LET rows == elo_worker[w].rows
           fresh == SelectSeq(rows, LAMBDA c : c \notin processed_elo)
       IN  /\ model_leaderboard' = write_leader_leaderboard(model_leaderboard, fresh)
           /\ processed_elo' = processed_elo \cup {rows[i] : i \in DOMAIN rows}
    /\ elo_worker' = [elo_worker EXCEPT ![w].pc = "delete", ![w].rows = <<>>]
    /\ UNCHANGED <<tokenVars, voteVars, sample_rows, use_priority, elo_key, elo_epoch,
                   elo_queue, glickoVars,
                   ratingVars, schedulerVars>>

\* lines 43-51: redis.delete("elo_calculation_in_progress"), return True
EloDeleteKey(w) ==
    /\ elo_worker[w].pc = "delete"
    /\ elo_key' = FALSE
    /\ elo_epoch' = IF elo_key THEN elo_epoch + 1 ELSE elo_epoch
    /\ elo_worker' = [elo_worker EXCEPT ![w] = IdleWorker]
    /\ UNCHANGED <<tokenVars, voteVars, catalogVars, elo_queue, processed_elo,
                   glickoVars,
                   ratingVars, schedulerVars>>

\* an exception inside the with block (the helpers the task calls are not
\* defined in the module, so the call at line 24 raises NameError): the
\* session rolls back and the task ends without deleting the key
EloFail(w) ==
    /\ elo_worker[w].pc \in {"read", "process"}
    /\ elo_worker' = [elo_worker EXCEPT ![w] = IdleWorker]
    /\ UNCHANGED <<tokenVars, voteVars, catalogVars, elo_key, elo_epoch, elo_queue,
                   processed_elo,
                   glickoVars,
                   ratingVars, schedulerVars>>

\* Redis expires elo_calculation_in_progress after its 300 s
ExpireEloKey ==
    /\ elo_key
    /\ elo_key' = FALSE
    /\ elo_epoch' = elo_epoch + 1
    /\ UNCHANGED <<tokenVars, voteVars, catalogVars, elo_queue, elo_worker, processed_elo,
                   glickoVars,
                   ratingVars, schedulerVars>>

\* ------------------------------------------------------ glicko_calculation
\* A Celery process: the task it runs and the state of its database session.
\*   batch    the comparisons still to process (the head is the current one)
\*   changed  UPDATEs the session will flush: the attributes Python assigned
\*   pending  rows the session INSERTed (flushed) and has not committed
\*   table_lock  the transaction holds the SHARE ROW EXCLUSIVE table locks
IdleProc ==
    [kind |-> "none", pc |-> "idle", batch |-> <<>>, changed |-> {}, pending |-> {},
     table_lock |-> FALSE, marker |-> FALSE, processed_count |-> 0,
     error_count |-> 0]

\* get_or_create_model_glicko_leaderboard, the new entry; created_for is
\* the comparison whose processing made the call
new_entry(id, model_id, tag_id, comparison_id) ==
    [id |-> id, model |-> model_id, tag |-> tag_id, vote_count |-> 0,
     win_count |-> 0, loss_count |-> 0, tie_count |-> 0,
     created_for |-> comparison_id]

ranks_of(comparison_id) == {k \in comparison_rank : k.comparison_id = comparison_id}

sorted_ranks(comparison_id) == {k.rank : k \in ranks_of(comparison_id)}

samples_by_rank(comparison_id, rank) ==
    {k \in ranks_of(comparison_id) : k.rank = rank}

is_tie(comparison_id) == Cardinality(sorted_ranks(comparison_id)) = 1

\* lines 185-205: the rank rows whose sample is found; a rank row of a
\* sample that no longer exists is passed over
sample_data(comparison_id) ==
    {k \in ranks_of(comparison_id) : k.sample \in DOMAIN sample_rows}

\* lines 193-198: SELECT pt.tag_id FROM specification.prompt_tag pt WHERE
\* pt.prompt_id = :prompt_id
tag_ids(sample_id) == sample_rows[sample_id].prompt_tags

\* the keys (model_id, metric_id, test_set_id, tag_id) of lines 215-231
entry_keys(comparison_id) ==
    {[model |-> sample_rows[k.sample].model, tag |-> t] :
        <<k, t>> \in {q \in sample_data(comparison_id) \X ({NoTag} \cup TagIds) :
                        q[2] = NoTag \/ q[2] \in tag_ids(q[1].sample)}}

\* the (a, b) pairs the two loops visit, with the counter each side gains
rated_pairs(comparison_id) ==
    IF is_tie(comparison_id)
    THEN {[a |-> x, b |-> y, a_counter |-> "tie_count", b_counter |-> "tie_count"] :
            <<x, y>> \in {q \in ranks_of(comparison_id) \X ranks_of(comparison_id) :
                            q[1].n < q[2].n}}
    ELSE LET first == CHOOSE r \in sorted_ranks(comparison_id) :
                          \A o \in sorted_ranks(comparison_id) : r <= o
             rest == sorted_ranks(comparison_id) \ {first}
             second == CHOOSE r \in rest : \A o \in rest : r <= o
         IN  {[a |-> x, b |-> y, a_counter |-> "win_count", b_counter |-> "loss_count"] :
                <<x, y>> \in samples_by_rank(comparison_id, first)
                              \X samples_by_rank(comparison_id, second)}

\* entry.vote_count += 1 and entry.<counter> += 1 on the session's object
bump(model_entries, model_id, counter) ==
    [model_entries EXCEPT ![model_id] =
        [@ EXCEPT !.vote_count = @ + 1,
                  !.win_count = IF counter = "win_count" THEN @ + 1 ELSE @,
                  !.loss_count = IF counter = "loss_count" THEN @ + 1 ELSE @,
                  !.tie_count = IF counter = "tie_count" THEN @ + 1 ELSE @]]

\* one pair on the rows of one tag (NoTag: the global rows)
rate_pair(model_entries, q, tag_id) ==
    LET a_key == [model |-> sample_rows[q.a.sample].model, tag |-> tag_id]
        b_key == [model |-> sample_rows[q.b.sample].model, tag |-> tag_id]
    IN  bump(bump(model_entries, a_key, q.a_counter), b_key, q.b_counter)

RECURSIVE rate_tags(_, _, _)
rate_tags(model_entries, q, tags) ==
    IF tags = {} THEN model_entries
    ELSE LET t == CHOOSE x \in tags : TRUE
         IN  rate_tags(rate_pair(model_entries, q, t), q, tags \ {t})

\* a pair with a sample that is not in sample_data is passed over; the
\* tagged rows are those of the tags both prompts carry
RECURSIVE rate_pairs(_, _)
rate_pairs(model_entries, pairs) ==
    IF pairs = {} THEN model_entries
    ELSE LET q == CHOOSE x \in pairs : TRUE
             rated ==
                 IF q.a.sample \in DOMAIN sample_rows /\ q.b.sample \in DOMAIN sample_rows
                 THEN rate_tags(rate_pair(model_entries, q, NoTag), q,
                                tag_ids(q.a.sample) \cap tag_ids(q.b.sample))
                 ELSE model_entries
         IN  rate_pairs(rated, pairs \ {q})

\* What the unit of work writes for an entry at flush: an UPDATE that sets
\* the attributes whose value changed since the load, to the new values.
update_of(loaded, now) ==
    [id |-> loaded.id,
     set |-> {f \in {"vote_count", "win_count", "loss_count", "tie_count"} :
                 loaded[f] # now[f]},
     values |-> now]

\* UPDATE ... SET <attributes> WHERE id = :id on the committed row
write_update(row, u) ==
    [f \in DOMAIN row |-> IF f \in u.set THEN u.values[f] ELSE row[f]]

flush_updates(rows, updates) ==
    {IF \E u \in updates : u.id = row.id
     THEN write_update(row, CHOOSE u \in updates : u.id = row.id)
     ELSE row : row \in rows}

\* ids of the leaderboard sequence that no row uses
RECURSIVE fresh_ids(_, _)
fresh_ids(used, n) ==
    IF n = 0 THEN <<>>
    ELSE LET id == CHOOSE i \in 1..(Cardinality(used) + 1) : i \notin used
         IN  <<id>> \o fresh_ids(used \cup {id}, n - 1)

used_ids ==
    {x.id : x \in model_glicko_leaderboard}
      \cup UNION {{x.id : x \in glicko_proc[p].pending} : p \in Procs}

\* another transaction holds the SHARE ROW EXCLUSIVE locks: INSERT and
\* UPDATE of this one wait
locked_out(p) == \E q \in Procs \ {p} : glicko_proc[q].table_lock

\* another transaction holds ROW EXCLUSIVE (it has written): LOCK TABLE waits
writers_besides(p) == \E q \in Procs \ {p} : glicko_proc[q].pending # {}

\* select(Comparison).outerjoin(ProcessedComparison).where(id == None)
unprocessed == {c \in comparison_ids : processed_comparison[c] = 0}

\* unique_model_glicko_leaderboard_entry: the INSERT of a tagged key waits
\* while another transaction has inserted the same key and not committed
unique_wait(p, key) ==
    \E q \in Procs \ {p} : \E x \in glicko_proc[q].pending :
        x.model = key.model /\ x.tag = key.tag

\* .limit(1000) without ORDER BY: any rows of the result, in any order
unprocessed_batches ==
    LET n == Min(GlickoBatchLimit, Cardinality(unprocessed))
    IN  {b \in [1..n -> unprocessed] : \A i, j \in 1..n : i # j => b[i] # b[j]}

\* line 48: redis.get("glicko_calculation_in_progress")
GlickoGet(p) ==
    /\ glicko_proc[p].pc = "idle"
    /\ glicko_proc' = [glicko_proc EXCEPT ![p].pc = IF glicko_key THEN "idle" ELSE "setex",
                                          ![p].kind = IF glicko_key THEN "none" ELSE "run"]
    /\ UNCHANGED <<glicko_key, model_glicko_leaderboard, processed_comparison, applied,
                   catalogVars, tokenVars, voteVars, eloVars,
                   ratingVars, schedulerVars>>

\* line 53: redis.setex("glicko_calculation_in_progress", 3600, "1")
GlickoSetex(p) ==
    /\ glicko_proc[p].pc = "setex"
    /\ glicko_key' = TRUE
    /\ glicko_proc' = [glicko_proc EXCEPT ![p].pc = "lock"]
    /\ UNCHANGED <<model_glicko_leaderboard, processed_comparison, applied,
                   catalogVars, tokenVars, voteVars, eloVars,
                   ratingVars, schedulerVars>>

\* lines 62-84: LOCK TABLE ... IN SHARE ROW EXCLUSIVE MODE, then the
\* unprocessed query
GlickoLock(p) ==
    /\ glicko_proc[p].pc = "lock"
    /\ ~locked_out(p)
    /\ ~writers_besides(p)
    /\ \E b \in unprocessed_batches :
         glicko_proc' = [glicko_proc EXCEPT ![p].pc = IF b = <<>> THEN "finish" ELSE "load",
                                            ![p].batch = b,
                                            ![p].table_lock = TRUE]
    /\ UNCHANGED <<glicko_key, model_glicko_leaderboard, processed_comparison, applied,
                   catalogVars, tokenVars, voteVars, eloVars,
                   ratingVars, schedulerVars>>

\* the position of a key in the two loops of lines 215-231: the global
\* keys in the order of sample_data, then the tagged keys
first_key(comparison_id, key) ==
    LET keys == {(IF key.tag = NoTag THEN 0 ELSE 100)
                   + (k.rank * (NSamples + 1) + k.n) * (NTags + 1) + key.tag :
                    k \in {x \in sample_data(comparison_id) :
                              /\ sample_rows[x.sample].model = key.model
                              /\ key.tag = NoTag \/ key.tag \in tag_ids(x.sample)}}
    IN  CHOOSE x \in keys : \A y \in keys : x <= y

\* where a process goes after one comparison of its batch
after_comparison(p) ==
    IF glicko_proc[p].kind = "task" THEN "return"
    ELSE IF Len(glicko_proc[p].batch) > 1 THEN "load" ELSE "finish"

\* process_comparison_for_glicko, lines 153-444: the comparison, its ranks
\* and samples are read, the entries are fetched or created, and the
\* counters are changed on the session's objects
ProcessLoad(p) ==
    /\ glicko_proc[p].pc = "load"
    /\ LET c == Head(glicko_proc[p].batch)
           keys == entry_keys(c)
           visible == model_glicko_leaderboard \cup glicko_proc[p].pending
           matches(k) == {x \in visible : x.model = k.model /\ x.tag = k.tag}
           failing == {k \in keys : Cardinality(matches(k)) > 1}
           stop == IF failing = {} THEN 0
                   ELSE LET ks == {first_key(c, k) : k \in failing}
                        IN  CHOOSE x \in ks : \A y \in ks : x <= y
           creating == {k \in keys : /\ matches(k) = {}
                                     /\ (failing = {} \/ first_key(c, k) < stop)}
           ids == fresh_ids(used_ids, Cardinality(creating))
           place(k) == Cardinality({o \in creating : first_key(c, o) <= first_key(c, k)})
           entry(k) == new_entry(ids[place(k)], k.model, k.tag, c)
           created == {entry(k) : k \in creating}
       IN  /\ creating # {} => ~locked_out(p)
           /\ \A k \in creating : k.tag # NoTag => ~unique_wait(p, k)
           /\ IF ranks_of(c) = {}
              THEN glicko_proc' = [glicko_proc EXCEPT ![p].pc = after_comparison(p),
                                                      ![p].batch = Tail(@),
                                                      ![p].processed_count = @ + 1]
              ELSE IF failing # {}
              THEN glicko_proc' = [glicko_proc EXCEPT ![p].pc = after_comparison(p),
                                                      ![p].batch = Tail(@),
                                                      ![p].pending = @ \cup created,
                                                      ![p].error_count = 1]
              ELSE LET model_entries ==
                           [k \in keys |->
                               IF k \in creating THEN entry(k)
                               ELSE CHOOSE x \in matches(k) : TRUE]
                       rated == rate_pairs(model_entries, rated_pairs(c))
                       updates == {update_of(model_entries[k], rated[k]) : k \in keys}
                   IN  glicko_proc' =
                         [glicko_proc EXCEPT ![p].pc = "commit",
                                             ![p].pending = @ \cup created,
                                             ![p].changed = {u \in updates : u.set # {}},
                                             ![p].marker = TRUE]
    /\ UNCHANGED <<glicko_key, model_glicko_leaderboard, processed_comparison, applied,
                   catalogVars, tokenVars, voteVars, eloVars,
                   ratingVars, schedulerVars>>

\* scoring.processed_comparison holds one row per comparison: a second
\* INSERT for the same comparison fails at flush
unique_violation(comparison_id) == processed_comparison[comparison_id] > 0

\* A task that adds no ProcessedComparison row.
mark_nothing(markers, comparison_id) == markers

\* line 447: db.add(ProcessedComparison(comparison_id=comparison_id, ...))
mark_processed(markers, comparison_id) == [markers EXCEPT ![comparison_id] = @ + 1]

\* lines 447-448: the marker is added and db.commit() flushes the UPDATEs
\* and the INSERT and commits; an IntegrityError rolls the transaction back
ProcessCommit(p) ==
    /\ glicko_proc[p].pc = "commit"
    /\ ~locked_out(p)
    /\ LET c == Head(glicko_proc[p].batch)
           marked == mark_processed(processed_comparison, c)
           failed == marked # processed_comparison /\ unique_violation(c)
       IN  /\ IF failed
              THEN UNCHANGED <<model_glicko_leaderboard, processed_comparison, applied>>
              ELSE /\ model_glicko_leaderboard' =
                        flush_updates(model_glicko_leaderboard \cup glicko_proc[p].pending,
                                      glicko_proc[p].changed)
                   /\ processed_comparison' = marked
                   /\ applied' = [applied EXCEPT ![c] = @ + 1]
           /\ glicko_proc' = [glicko_proc EXCEPT ![p].pc = after_comparison(p),
                                                 ![p].batch = Tail(@),
                                                 ![p].changed = {},
                                                 ![p].pending = {},
                                                 ![p].marker = FALSE,
                                                 ![p].table_lock = FALSE,
                                                 ![p].processed_count =
                                                     IF failed THEN @ ELSE @ + 1,
                                                 ![p].error_count =
                                                     IF failed THEN 1 ELSE @]
    /\ UNCHANGED <<glicko_key, catalogVars, tokenVars, voteVars, eloVars,
                   ratingVars, schedulerVars>>

\* lines 96-108: the final db.commit() of the run, then the key is deleted
GlickoFinish(p) ==
    /\ glicko_proc[p].pc = "finish"
    /\ glicko_proc[p].pending # {} => ~locked_out(p)
    /\ model_glicko_leaderboard' = model_glicko_leaderboard \cup glicko_proc[p].pending
    /\ glicko_key' = FALSE
    /\ glicko_proc' = [glicko_proc EXCEPT ![p] = IdleProc]
    /\ UNCHANGED <<processed_comparison, applied, catalogVars, tokenVars, voteVars,
                   eloVars,
                   ratingVars, schedulerVars>>

\* glicko_calculation.process_comparison for one comparison id
TaskStart(p, comparison_id) ==
    /\ glicko_proc[p].pc = "idle"
    /\ glicko_proc' = [glicko_proc EXCEPT ![p].pc = "load", ![p].kind = "task",
                                          ![p].batch = <<comparison_id>>]
    /\ UNCHANGED <<glicko_key, model_glicko_leaderboard, processed_comparison, applied,
                   catalogVars, tokenVars, voteVars, eloVars,
                   ratingVars, schedulerVars>>

\* lines 456-462: the task returns and the managed session ends
TaskReturn(p) ==
    /\ glicko_proc[p].pc = "return"
    /\ glicko_proc[p].pending # {} => ~locked_out(p)
    /\ model_glicko_leaderboard' = model_glicko_leaderboard \cup glicko_proc[p].pending
    /\ glicko_proc' = [glicko_proc EXCEPT ![p] = IdleProc]
    /\ UNCHANGED <<glicko_key, processed_comparison, applied, catalogVars, tokenVars,
                   voteVars, eloVars,
                   ratingVars, schedulerVars>>

\* the worker process dies: its transaction is rolled back by the server
\* and nothing of the task's cleanup runs
GlickoCrash(p) ==
    /\ glicko_proc[p].pc # "idle"
    /\ glicko_proc' = [glicko_proc EXCEPT ![p] = IdleProc]
    /\ UNCHANGED <<glicko_key, model_glicko_leaderboard, processed_comparison, applied,
                   catalogVars, tokenVars, voteVars, eloVars,
                   ratingVars, schedulerVars>>

\* Redis expires glicko_calculation_in_progress after its 3600 s
ExpireGlickoKey ==
    /\ glicko_key
    /\ glicko_key' = FALSE
    /\ UNCHANGED <<model_glicko_leaderboard, processed_comparison, applied, glicko_proc,
                   catalogVars, tokenVars, voteVars, eloVars,
                   ratingVars, schedulerVars>>

\* ------------------------------------------------ update_glicko2_rating
\* Ratings are kept in whole rating points.  A volatility sigma is kept as
\* 173.7178 * sigma, so that 173.7178 * sqrt(phi^2 + sigma^2) is the root of
\* deviation^2 + volatility^2.  Percentages stand for the values in [0, 1].
NoRating == [deviation |-> 0, volatility |-> 0, raw |-> 0, call |-> "none"]

\* math.sqrt, rounded down
isqrt(n) == CHOOSE r \in 0..700 : r * r <= n /\ (r + 1) * (r + 1) > n

\* g(deviation)**2 in percent; 99281 is 173.7178^2 * pi^2 / 3
g_squared(deviation) == (100 * 99281) \div (99281 + deviation * deviation)

\* lines 117-124: the sum of g^2 * E * (1 - E) over the opponents, times 10^6
RECURSIVE variance_sum(_)
variance_sum(opponents) ==
    IF opponents = <<>> THEN 0
    ELSE g_squared(Head(opponents).deviation) * Head(opponents).expected
             * (100 - Head(opponents).expected)
           + variance_sum(Tail(opponents))

\* An update that returns the deviation it computed.
clamp_none(x) == x

\* line 188: min(350, max(30, new_deviation))
clamp(x) == Min(350, Max(30, x))

\* update_glicko2_rating; sigma_prime is the result of the volatility
\* iteration of lines 139-171.  raw is the deviation before the bounds.
update_glicko2_rating(rating, opponents, sigma_prime) ==
    IF opponents = <<>>
    THEN LET new_phi == isqrt(rating.deviation * rating.deviation
                                + rating.volatility * rating.volatility)
         IN  [deviation |-> Min(350, new_phi), volatility |-> rating.volatility,
              raw |-> new_phi, call |-> "no games"]
    ELSE LET total == variance_sum(opponents) \div 100
             v == IF total # 0 THEN (30178 * 10000) \div total ELSE 0
             phi_star_2 == rating.deviation * rating.deviation
                             + sigma_prime * sigma_prime
             phi_prime == IF v # 0
                          THEN isqrt((phi_star_2 * 1000)
                                       \div (1000 + (1000 * phi_star_2) \div v))
                          ELSE isqrt(phi_star_2)
         IN  [deviation |-> clamp(phi_prime), volatility |-> sigma_prime,
              raw |-> phi_prime, call |-> "games"]

\* the volatilities 0.06 (a new entry's) and 0.3, in rating points
Volatilities == {10, 52}

\* opponents by deviation and by the expected outcome E against them
OpponentRatings == [deviation : {30, 350}, expected : {0, 50, 100}]

\* every short list, and one long list of even games against opponents of
\* the lowest deviation
OpponentLists ==
    UNION {[1..n -> OpponentRatings] : n \in 0..MaxOpponents}
      \cup {[i \in 1..LongOpponents |-> [deviation |-> 30, expected |-> 50]]}

Rate(opponents, sigma_prime) ==
    /\ UNCHANGED leaderboard_response
    /\ glicko_rating' = update_glicko2_rating(glicko_rating, opponents, sigma_prime)
    /\ UNCHANGED <<catalogVars, tokenVars, voteVars, eloVars, glickoVars,
                   schedulerVars>>

\* ------------------------------------------------- leaderboard endpoints
\* what a caller can pass as tagName: nothing, the empty string, the name
\* of a tag, a name no tag has
AbsentTagName == 0 - 1
EmptyTagName == 0
UnknownTag == NTags + 1
TagNames == {AbsentTagName, EmptyTagName} \cup TagIds \cup {UnknownTag}

NoResponse == [endpoint |-> "none", status |-> 0, tag |-> NoTag, rows |-> <<>>]

\* ORDER BY <score> DESC
RECURSIVE order_by_desc(_, _)
order_by_desc(rows, column) ==
    IF rows = {} THEN <<>>
    ELSE LET top == CHOOSE r \in rows : \A x \in rows : x[column] <= r[column]
         IN  <<top>> \o order_by_desc(rows \ {top}, column)

\* LIMIT
limit_rows(q, limit) == SubSeq(q, 1, Min(limit, Len(q)))

\* db.scalar(select(Tag).where(Tag.name == tagName)), asked only for a
\* non-empty tagName
find_tag(tagName) ==
    IF tagName \in {AbsentTagName, EmptyTagName} THEN NoTag
    ELSE IF tagName \in TagIds THEN tagName ELSE UnknownTag

\* the tag condition get_leaderboard adds to the query
tag_filter(r, tag) == r.tag = tag

\* GET /api/leaderboard
get_leaderboard(metricName, testSetName, tagName, limit, minVotes) ==
    LET tag == find_tag(tagName)
        entries == {r \in model_leaderboard :
                        /\ r.metric = metricName
                        /\ r.test_set = testSetName
                        /\ r.vote_count >= minVotes
                        /\ tag_filter(r, tag)}
    IN  /\ leaderboard_response' =
              IF metricName \notin MetricIds \/ testSetName \notin TestSetIds
                 \/ tag = UnknownTag
              THEN [endpoint |-> "get_leaderboard", status |-> 404, tag |-> NoTag,
                    rows |-> <<>>]
              ELSE [endpoint |-> "get_leaderboard", status |-> 200, tag |-> tag,
                    rows |-> limit_rows(order_by_desc(entries, "elo_score"), limit)]
        /\ UNCHANGED <<catalogVars, tokenVars, voteVars, eloVars, glickoVars,
                       glicko_rating, schedulerVars>>

\* GET /model/glicko/{metric_id}/{test_set_id}: the path carries no tag
get_model_glicko_leaderboard(metric_id, test_set_id) ==
    LET leaderboard == {r \in model_glicko_leaderboard :
                            r.metric = metric_id /\ r.test_set = test_set_id}
    IN  /\ leaderboard_response' =
              [endpoint |-> "get_model_glicko_leaderboard", status |-> 200,
               tag |-> NoTag, rows |-> order_by_desc(leaderboard, "glicko_rating")]
        /\ UNCHANGED <<catalogVars, tokenVars, voteVars, eloVars, glickoVars,
                       glicko_rating, schedulerVars>>


\* ------------------------------------------------------------ the vote path
\* The catalogue of the vote path: one correlation id of test set T with two
\* approved samples of model 1 (one of them without a rendered artifact)
\* and one of model 2; the last sample is unapproved.
vote_catalog(T) ==
    [s \in SampleIds |->
        [model |-> IF s <= 2 THEN 1 ELSE 2, corr |-> 1, test_set |-> T,
         approved |-> s <= 3, artifact |-> s # 2,
         experimental_state |-> "RELEASED", prompt_tags |-> {}]]

BatchSizes == (1..MaxBatchSize) \cup {MAX_BATCH_SIZE + 1}

\* SchedulerManager.__init__ (manager.py lines 31-33), before run():
\*   lockfile  the inode of self.lockfile, 0 while None
\*   process   self.process refers to a multiprocessing.Process
\*   live      the scheduler subprocesses of this manager that are alive
NewManager == [pc |-> "new", lockfile |-> 0, process |-> FALSE, live |-> 0]

InitIdle ==
    /\ leaderboard_response = NoResponse
    /\ lock_path = 0
    /\ inodes = 0
    /\ flock = [i \in Managers |-> 0]
    /\ manager = [m \in Managers |-> NewManager]
    /\ redis_tokens = <<>>
    /\ next_token = 0
    /\ last_batch = NoBatch
    /\ req = [r \in Reqs |-> IdleReq]
    /\ elo_key = FALSE
    /\ elo_epoch = 0
    /\ elo_queue = 0
    /\ elo_worker = [w \in Workers |-> IdleWorker]
    /\ processed_elo = {}
    /\ glicko_key = FALSE
    /\ model_glicko_leaderboard = {}
    /\ glicko_proc = [p \in Procs |-> IdleProc]

InitVotes ==
    /\ InitIdle
    /\ glicko_rating = NoRating
    /\ model_leaderboard = {}
    /\ use_priority = FALSE
    /\ comparison = {}
    /\ comparison_rank = {}
    /\ next_comparison_id = 1
    /\ processed_comparison = <<>>
    /\ applied = <<>>

Init ==
    /\ InitVotes
    /\ sample_rows = vote_catalog(AuthenticatedTestSet)

\* the rankings a client of the voting page sends: a winner and a loser, a
\* tie, one sample only, and a tie group that repeats a sample
ballots(s1, s2) ==
    {<<Single(s1), Single(s2)>>, <<TieGroup(<<s1, s2>>)>>, <<Single(s1)>>,
     <<TieGroup(<<s1, s1>>), Single(s2)>>}

\* requests are taken in the order of their numbers
PostStart(r, identity, token) ==
    /\ \A q \in Reqs : q < r => req[q].pc # "idle"
    /\ PostGetDel(r, identity, token)

RequestStep(r) ==
    \/ \E ordered \in ballots(req[r].s1, req[r].s2) : PostRanks(r, ordered)
    \/ PostFlush(r)
    \/ PostSetNx(r)
    \/ PostSendTask(r)
    \/ PostReturn(r)

WorkerStep(w) ==
    \/ EloStart(w)
    \/ EloRead(w)
    \/ EloProcess(w)
    \/ EloDeleteKey(w)

\* Two concurrent votes of authenticated callers, one with and one without
\* the vote permission, on tokens of batches a voter fetched.
Next ==
    \/ \E batch_size \in 1..MaxBatchSize, metric \in {1} :
         get_comparison_batch("voter", batch_size, metric)
    \/ \E t \in TokenIds : ExpireToken(t)
    \/ \E r \in Reqs, identity \in {"voter", "novote"}, token \in TokenIds :
         PostStart(r, identity, token)
    \/ \E r \in Reqs : RequestStep(r)
    \/ \E r \in Reqs : PostError(r)
    \/ \E w \in Workers : WorkerStep(w)
    \/ \E w \in Workers : EloFail(w)
    \/ ExpireEloKey

vars == <<catalogVars, tokenVars, voteVars, eloVars, glickoVars, ratingVars,
          schedulerVars>>

Spec == Init /\ [][Next]_vars

\* ---- one vote, any caller, any ranking
InitOne ==
    /\ InitVotes
    /\ sample_rows \in {vote_catalog(T) : T \in TestSetIds}

NextOne ==
    \/ \E identity \in Identities, metric \in {1} :
         get_comparison_batch(identity, MaxBatchSize, metric)
    \/ \E t \in TokenIds : ExpireToken(t)
    \/ \E identity \in Identities, token \in TokenIds : PostGetDel(1, identity, token)
    \/ \E ordered \in ordered_sample_ids(req[1].s1, req[1].s2) : PostRanks(1, ordered)
    \/ PostFlush(1)
    \/ PostSetNx(1)
    \/ PostSendTask(1)
    \/ PostReturn(1)
    \/ PostError(1)
    \/ \E w \in Workers : WorkerStep(w)
    \/ \E w \in Workers : EloFail(w)
    \/ ExpireEloKey

SpecOne == InitOne /\ [][NextOne]_vars

\* ---- the vote path without failures: no exception in a request, no
\* exception in the task; every request and every worker keeps running
FairNext ==
    \/ \E batch_size \in 1..MaxBatchSize, metric \in {1} :
         get_comparison_batch("voter", batch_size, metric)
    \/ \E r \in Reqs, token \in TokenIds : PostStart(r, "voter", token)
    \/ \E r \in Reqs : RequestStep(r)
    \/ \E w \in Workers : WorkerStep(w)
    \/ ExpireEloKey

FairSpec ==
    /\ Init
    /\ [][FairNext]_vars
    /\ \A r \in Reqs : WF_vars(RequestStep(r))
    /\ \A w \in Workers : WF_vars(WorkerStep(w))
    /\ WF_vars(ExpireEloKey)

\* ================================================================= claims
started(r) == req[r].pc # "idle"
finished(r) == req[r].pc = "done"
obtained(r) == req[r].s1 # 0
persisted(r) == \E c \in comparison : c.id = req[r].cid
set_key(r) == req[r].trigger \in {"SET", "ENQUEUED"}

\* C1: of the post_comparison calls that present one token, at most one
\* obtains its payload; every call that does not obtain it ends with 404
\* and persists no Comparison, and no two Comparisons stem from one token.
C1_TokenConsumedOnce ==
    /\ \A r1, r2 \in Reqs :
         (r1 # r2 /\ started(r1) /\ started(r2) /\ req[r1].token = req[r2].token)
           => ~(obtained(r1) /\ obtained(r2))
    /\ \A r \in Reqs :
         (started(r) /\ ~obtained(r))
           => /\ finished(r) /\ req[r].status = 404
              /\ req[r].cid = 0 /\ req[r].names = <<>>

\* two calls presented the same token: one committed a Comparison, the
\* other got 404
C1_Witness ==
    \E r1, r2 \in Reqs :
        /\ r1 # r2 /\ req[r1].token = req[r2].token
        /\ finished(r1) /\ req[r1].status = 200 /\ persisted(r1)
        /\ finished(r2) /\ req[r2].status = 404 /\ req[r2].identity # "unknown"

in_flight ==
    elo_queue + Cardinality({w \in Workers : elo_worker[w].pc # "idle"})

\* C3: at most one elo_calculation task is enqueued or executing, the
\* expiry of elo_calculation_in_progress being a possible step.
C3_AtMostOneInFlight == in_flight <= 1

\* C5: of the requests that reach the trigger during one life of the key
\* elo_calculation_in_progress, exactly one sets it (and only that one goes
\* on to send_task); every other one finds the key present and skips.
C5_OneTriggerPerKey ==
    /\ \A r1, r2 \in Reqs :
         (r1 # r2 /\ set_key(r1) /\ set_key(r2)) => req[r1].epoch # req[r2].epoch
    /\ \A r \in Reqs :
         req[r].trigger = "SKIPPED"
           => /\ req[r].pc \in {"return", "done"}
              /\ \E o \in Reqs \ {r} : set_key(o) /\ req[o].epoch = req[r].epoch
    /\ \A r \in Reqs : req[r].pc = "send" => req[r].trigger = "SET"

\* two requests raced on one life of the key: one enqueued, one skipped
C5_Witness ==
    \E r1, r2 \in Reqs :
        /\ req[r1].trigger = "ENQUEUED" /\ req[r2].trigger = "SKIPPED"
        /\ req[r1].epoch = req[r2].epoch
        /\ finished(r1) /\ finished(r2)

committed(c) == c \in comparison_ids

\* C4: every Comparison committed by post_comparison is eventually marked
\* processed by elo_calculation, whether or not another vote arrives.
C4_EventuallyProcessed ==
    \A c \in 1..MaxReqs : [](committed(c) => <>(c \in processed_elo))

lacks_permission(r) == req[r].identity = "novote"

C10_RanksInvalid ==
    \A r \in Reqs :
        (finished(r) /\ req[r].flattened = "differs")
          => /\ req[r].status = 400
             /\ req[r].cid = 0
             /\ comparison = {} /\ comparison_rank = {}

\* ---- get_comparison_batch over drawn catalogues
\* The catalogues: sample 1 is of model 1 and of the authenticated test
\* set, the last sample is of model 2; all samples but the last share
\* correlation id 1; sample 2 may have no test set; at most one of: the
\* last sample is unapproved, sample 1 lacks its rendered artifact.
catalogs ==
    {[s \in SampleIds |->
         [model |-> m[s], corr |-> c[s], test_set |-> t[s],
          approved |-> (s < NSamples \/ flaw # "unapproved"),
          artifact |-> (s > 1 \/ flaw # "no artifact"),
          experimental_state |-> "RELEASED"]] :
       m \in {x \in [SampleIds -> ModelIds] : x[1] = 1 /\ x[NSamples] = 2},
       c \in {x \in [SampleIds -> CorrIds] :
                 \A s \in SampleIds : s < NSamples => x[s] = 1},
       t \in {x \in [SampleIds -> TestSetIds \cup {NoTestSet}] :
                 /\ x[1] = AuthenticatedTestSet
                 /\ \A s \in SampleIds \ {2} : x[s] # NoTestSet},
       flaw \in {"none", "unapproved", "no artifact"}}

\* scoring.model_leaderboard contents the priority query is tried on: the
\* tag-less vote counts of the models, per test set
vote_profile(k, m) ==
    CASE k = 1 -> IF m = 1 THEN 1 ELSE 30
      [] k = 2 -> IF m = 1 THEN 4 ELSE 5
      [] k = 3 -> IF m = 1 THEN 19 ELSE 21
      [] OTHER -> 5

\* rows of model 2 beside its tagless row of metric 1: none, its tagless
\* row of metric 2, its row of metric 1 for tag 1
other_rows == {{}, {<<2, NoTag>>}, {<<1, 1>>}}

leaderboard_with(busy) ==
    {r \in [model : ModelIds, metric : MetricIds, test_set : TestSetIds,
             tag : {NoTag} \cup TagIds, vote_count : {4, 5, 30}] :
        \/ r.metric = 1 /\ r.tag = NoTag /\ r.vote_count = vote_profile(2, r.model)
        \/ r.model = 2 /\ r.vote_count = 30 /\ <<r.metric, r.tag>> \in busy}

leaderboards ==
    {{}} \cup
    {{[model |-> m, metric |-> 1, test_set |-> T, tag |-> NoTag,
       vote_count |-> vote_profile(k, m)] : m \in ModelIds, T \in TestSetIds}
        : k \in 1..3} \cup
    {{r \in [model : ModelIds, metric : MetricIds, test_set : TestSetIds,
              tag : {NoTag}, vote_count : {vote_profile(0, 1)}] :
         r.metric = 1 \/ r.model = 1}} \cup
    {leaderboard_with(busy) : busy \in other_rows}

InitBatch ==
    /\ InitIdle
    /\ glicko_rating = NoRating
    /\ sample_rows \in catalogs
    /\ use_priority \in BOOLEAN
    /\ model_leaderboard \in IF use_priority THEN leaderboards ELSE {{}}
    /\ comparison = {}
    /\ comparison_rank = {}
    /\ next_comparison_id = 1
    /\ processed_comparison = <<>>
    /\ applied = <<>>

NextBatch ==
    \E identity \in {"anon", "voter", "unknown"}, batch_size \in BatchSizes,
       metric \in {1, UnknownMetric} :
        get_comparison_batch(identity, batch_size, metric)

SpecBatch == InitBatch /\ [][NextBatch]_vars

returned_pairs == {last_batch.rows[i] : i \in DOMAIN last_batch.rows}

\* C6: in every pair get_comparison_batch returns, in either mode, the two
\* samples differ and so do the models of their runs; the same holds of
\* every token it wrote.
C6_DistinctSamplesAndModels ==
    /\ \A q \in returned_pairs :
         q[1] # q[2] /\ sample_rows[q[1]].model # sample_rows[q[2]].model
    /\ \A t \in DOMAIN redis_tokens :
         /\ redis_tokens[t].s1 # redis_tokens[t].s2
         /\ sample_rows[redis_tokens[t].s1].model # sample_rows[redis_tokens[t].s2].model

\* the priority query returned a pair although an eligible sample of the
\* model of its first sample shares the correlation id
C6_Witness ==
    /\ last_batch.status = 200 /\ last_batch.priority
    /\ \E q \in returned_pairs :
         \E s \in sample_ids(last_batch.test_set) \ {q[1]} :
            /\ sample_rows[s].corr = sample_rows[q[1]].corr
            /\ sample_rows[s].model = sample_rows[q[1]].model
            /\ sample_rows[s].artifact

\* C7: in every pair get_comparison_batch returns, both samples are of one
\* test set, the default one of the caller's category: the authenticated
\* test set for an authenticated caller, the unauthenticated one for an
\* anonymous caller.
C7_DefaultTestSet ==
    last_batch.status = 200 =>
        /\ last_batch.test_set =
             (IF last_batch.identity = "anon" THEN UnauthenticatedTestSet
              ELSE AuthenticatedTestSet)
        /\ \A q \in returned_pairs :
             /\ sample_rows[q[1]].test_set = last_batch.test_set
             /\ sample_rows[q[2]].test_set = last_batch.test_set

\* an anonymous caller got a pair although an approved sample of another
\* model and of the other test set shares the correlation id
C7_Witness ==
    /\ last_batch.status = 200 /\ last_batch.identity = "anon"
    /\ \E q \in returned_pairs :
         \E s \in SampleIds :
            /\ sample_rows[s].approved /\ sample_rows[s].artifact
            /\ sample_rows[s].test_set = AuthenticatedTestSet
            /\ sample_rows[s].corr = sample_rows[q[1]].corr
            /\ sample_rows[s].model # sample_rows[q[1]].model

\* ---- the Glicko-2 tasks over committed comparisons
\* a sample of model 1 that was ranked and no longer exists
DeletedSample == NSamples + 1

\* The rank rows post_comparison writes for a vote on the pair (1, 3): the
\* first sample wins, the second wins, or a tie.  Two comparisons with a
\* missing related entity: one without rank rows, one whose winning sample
\* no longer exists.
vote_ranks(c, outcome) ==
    CASE outcome = "none" -> {}
      [] outcome = "missing" ->
           {[comparison_id |-> c, n |-> 1, sample |-> DeletedSample, rank |-> 1],
            [comparison_id |-> c, n |-> 2, sample |-> 3, rank |-> 2]}
      [] outcome = "first" ->
           {[comparison_id |-> c, n |-> 1, sample |-> 1, rank |-> 1],
            [comparison_id |-> c, n |-> 2, sample |-> 3, rank |-> 2]}
      [] outcome = "second" ->
           {[comparison_id |-> c, n |-> 1, sample |-> 3, rank |-> 1],
            [comparison_id |-> c, n |-> 2, sample |-> 1, rank |-> 2]}
      [] OTHER ->
           {[comparison_id |-> c, n |-> 1, sample |-> 1, rank |-> 1],
            [comparison_id |-> c, n |-> 2, sample |-> 3, rank |-> 1]}

InitGlicko ==
    /\ InitIdle
    /\ glicko_rating = NoRating
    /\ sample_rows = vote_catalog(AuthenticatedTestSet)
    /\ model_leaderboard = {}
    /\ use_priority = FALSE
    /\ comparison = {[id |-> c, identity |-> "voter", metric |-> 1,
                      test_set |-> AuthenticatedTestSet] : c \in 1..NComparisons}
    /\ \E outcome \in [1..NComparisons -> {"first", "second", "tie"}] :
         comparison_rank = UNION {vote_ranks(c, outcome[c]) : c \in 1..NComparisons}
    /\ next_comparison_id = NComparisons + 1
    /\ processed_comparison = [c \in 1..NComparisons |-> 0]
    /\ applied = [c \in 1..NComparisons |-> 0]

NextGlicko ==
    \/ \E p \in Procs : GlickoGet(p)
    \/ \E p \in Procs : GlickoSetex(p)
    \/ \E p \in Procs : GlickoLock(p)
    \/ \E p \in Procs : ProcessLoad(p)
    \/ \E p \in Procs : ProcessCommit(p)
    \/ \E p \in Procs : GlickoFinish(p)
    \/ \E p \in Procs, c \in comparison_ids : TaskStart(p, c)
    \/ \E p \in Procs : TaskReturn(p)
    \/ \E p \in Procs : GlickoCrash(p)
    \/ ExpireGlickoKey

SpecGlicko == InitGlicko /\ [][NextGlicko]_vars

C8_VoteCountIsSum ==
    \A x \in model_glicko_leaderboard :
        x.vote_count = x.win_count + x.loss_count + x.tie_count

\* ---- the rows of a vote
ranks_of_request(r) == {k \in comparison_rank : k.comparison_id = req[r].cid}

\* C11: every Comparison persisted by post_comparison has exactly two
\* ComparisonRank rows, one for each sample of the token, with ranks {1, 2}
\* or {1, 1}.
C11_TwoRanksPerComparison ==
    \A r \in Reqs :
        (finished(r) /\ persisted(r))
          => /\ Cardinality(ranks_of_request(r)) = 2
             /\ {k.sample : k \in ranks_of_request(r)} = {req[r].s1, req[r].s2}
             /\ {k.rank : k \in ranks_of_request(r)} \in {{1, 2}, {1}}

\* C12: a call rejected with 400 for its ranking leaves the pair token in
\* Redis for a later call.
C12_RejectedKeepsToken ==
    \A r \in Reqs :
        (finished(r) /\ obtained(r) /\ req[r].status = 400)
          => req[r].token \in DOMAIN redis_tokens

\* C13: in every committed state a Comparison written by post_comparison
\* is present iff its ComparisonRank rows are: a committed Comparison has
\* rank rows for both samples of its token, every rank row belongs to a
\* committed Comparison, and a call that failed after its flush has left
\* neither.
C13_ComparisonIffRanks ==
    /\ \A k \in comparison_rank : \E c \in comparison : c.id = k.comparison_id
    /\ \A c \in comparison : \E r \in Reqs :
         /\ req[r].cid = c.id
         /\ {k.sample : k \in ranks_of_request(r)} = {req[r].s1, req[r].s2}
    /\ \A r \in Reqs :
         (req[r].cid # 0 /\ (~finished(r) \/ req[r].status # 200))
           => ~persisted(r) /\ ranks_of_request(r) = {}

\* one vote is committed with its rows and another call failed with 500
\* after its Comparison had been flushed
C13_Witness ==
    \E r1, r2 \in Reqs :
        /\ finished(r1) /\ req[r1].status = 200 /\ persisted(r1)
        /\ ranks_of_request(r1) # {}
        /\ finished(r2) /\ req[r2].status = 500 /\ req[r2].cid # 0
        /\ ~persisted(r2)

\* C14: every call that persisted a Comparison has gone through the ELO
\* trigger and the GLICKO trigger: a glicko_calculation run was enqueued or
\* the key glicko_calculation_in_progress was found set.
C14_BothSystemsTriggered ==
    \A r \in Reqs :
        (finished(r) /\ persisted(r))
          => /\ req[r].trigger \in {"ENQUEUED", "SKIPPED"}
             /\ (glicko_key \/ \E p \in Procs : glicko_proc[p].pc # "idle")

\* ---- get_comparison_batch over samples of every moderation state
\* Two samples of each model under one correlation id, all with their
\* rendered artifact; approval and experimental state are drawn per sample,
\* and sample 2 may be bound to no test set.
eligibility_catalogs ==
    {[s \in SampleIds |->
         [model |-> IF 2 * s <= NSamples THEN 1 ELSE 2, corr |-> 1,
          test_set |-> IF s = 2 THEN t ELSE AuthenticatedTestSet,
          approved |-> a[s], artifact |-> TRUE,
          experimental_state |-> e[s]]] :
       a \in [SampleIds -> BOOLEAN],
       e \in [SampleIds -> {"RELEASED", "DEPRECATED"}],
       t \in {AuthenticatedTestSet, NoTestSet}}

InitEligible ==
    /\ InitIdle
    /\ glicko_rating = NoRating
    /\ sample_rows \in eligibility_catalogs
    /\ use_priority \in BOOLEAN
    /\ model_leaderboard \in
         IF use_priority
         THEN {{}, {[model |-> m, metric |-> 1, test_set |-> T, tag |-> NoTag,
                     vote_count |-> vote_profile(1, m)] :
                      m \in ModelIds, T \in TestSetIds}}
         ELSE {{}}
    /\ comparison = {}
    /\ comparison_rank = {}
    /\ next_comparison_id = 1
    /\ processed_comparison = <<>>
    /\ applied = <<>>

SpecEligible == InitEligible /\ [][NextBatch]_vars

\* C15: every sample of a pair get_comparison_batch returns, in either
\* mode, is APPROVED, is bound to a test set and is not DEPRECATED.
C15_ReturnedSamplesEligible ==
    \A q \in returned_pairs : \A s \in {q[1], q[2]} :
        /\ sample_rows[s].approved
        /\ sample_rows[s].test_set # NoTestSet
        /\ sample_rows[s].experimental_state # "DEPRECATED"

\* the approved samples of test set T with correlation id c
approved_in(T, c) ==
    {s \in SampleIds : /\ sample_rows[s].approved
                       /\ sample_rows[s].test_set = T
                       /\ sample_rows[s].corr = c}

\* C16: in uniform mode, when the test set holds approved samples of one
\* correlation id from two models (all with their rendered artifact), a
\* successful batch holds a pair; and every pair returned is of a
\* correlation id with approved samples of two models.
C16_TwoModelsEligible ==
    (last_batch.status = 200 /\ ~last_batch.priority)
      => /\ (\E c \in CorrIds :
               /\ Cardinality({sample_rows[s].model :
                                  s \in approved_in(last_batch.test_set, c)}) >= 2
               /\ \A s \in approved_in(last_batch.test_set, c) :
                     sample_rows[s].artifact)
              => last_batch.rows # <<>>
         /\ \A q \in returned_pairs :
              Cardinality({sample_rows[s].model :
                  s \in approved_in(last_batch.test_set, sample_rows[q[1]].corr)}) >= 2

\* C19: the elo_calculation task is enqueued only after the vote's Comparison
\* and ranks are committed: a run that has read the unprocessed comparisons
\* was enqueued by a vote that is committed.
C19_RunSeesTriggeringVote ==
    \A w \in Workers :
        elo_worker[w].pc = "process" =>
            \E r \in Reqs : /\ req[r].trigger = "ENQUEUED"
                            /\ req[r].cid \in comparison_ids

\* a glicko_calculation invocation that holds its batch of unprocessed
\* comparisons and is loading or committing one of them
in_processing_section(p) ==
    /\ glicko_proc[p].kind = "run"
    /\ glicko_proc[p].pc \in {"load", "commit"}

\* C20: at most one glicko_calculation invocation is inside its processing
\* section at any time.
C20_AtMostOneProcessing ==
    Cardinality({p \in Procs : in_processing_section(p)}) <= 1

\* ---- the leaderboard read endpoints over tables with tagged rows
\* Rows the rating tasks write for one (metric, test set): per model the
\* tagless row and a row per tag of the prompts (a tagged row is created
\* together with the model's tagless row), and rows of another metric and
\* another test set.
board_keys ==
    {k \in [model : ModelIds, metric : MetricIds, test_set : TestSetIds,
            tag : {NoTag} \cup TagIds] :
        \/ k.metric = 1 /\ k.test_set = AuthenticatedTestSet
        \/ k.model = 1 /\ k.tag = NoTag}

board_votes(k) == 12 * k.model - 4 * k.tag

board_score(k) == 1000 + 40 * k.model - 7 * k.tag + 3 * k.metric + k.test_set

elo_rows(keys) ==
    {[model |-> k.model, metric |-> k.metric, test_set |-> k.test_set,
      tag |-> k.tag, vote_count |-> board_votes(k), elo_score |-> board_score(k)]
        : k \in keys}

glicko_rows(keys) ==
    {[model |-> k.model, metric |-> k.metric, test_set |-> k.test_set,
      tag |-> k.tag, vote_count |-> board_votes(k),
      glicko_rating |-> board_score(k)] : k \in keys}

InitBoard ==
    /\ leaderboard_response = NoResponse
    /\ lock_path = 0
    /\ inodes = 0
    /\ flock = [i \in Managers |-> 0]
    /\ manager = [m \in Managers |-> NewManager]
    /\ redis_tokens = <<>>
    /\ next_token = 0
    /\ last_batch = NoBatch
    /\ req = [r \in Reqs |-> IdleReq]
    /\ elo_key = FALSE
    /\ elo_epoch = 0
    /\ elo_queue = 0
    /\ elo_worker = [w \in Workers |-> IdleWorker]
    /\ processed_elo = {}
    /\ glicko_key = FALSE
    /\ glicko_proc = [p \in Procs |-> IdleProc]
    /\ glicko_rating = NoRating
    /\ sample_rows = vote_catalog(AuthenticatedTestSet)
    /\ use_priority = FALSE
    /\ comparison = {}
    /\ comparison_rank = {}
    /\ next_comparison_id = 1
    /\ processed_comparison = <<>>
    /\ applied = <<>>
    /\ \E keys \in SUBSET board_keys :
          /\ \A k \in keys : [k EXCEPT !.tag = NoTag] \in keys
          /\ model_leaderboard = elo_rows(keys)
          /\ model_glicko_leaderboard = glicko_rows(keys)

NextBoard ==
    \/ \E metricName \in MetricIds \cup {UnknownMetric},
          testSetName \in TestSetIds \cup {NoTestSet},
          tagName \in TagNames, limit \in {1, 20}, minVotes \in {0, 10} :
          get_leaderboard(metricName, testSetName, tagName, limit, minVotes)
    \/ \E metric_id \in MetricIds \cup {UnknownMetric}, test_set_id \in TestSetIds :
          get_model_glicko_leaderboard(metric_id, test_set_id)

SpecBoard == InitBoard /\ [][NextBoard]_vars

\* C18: a leaderboard read endpoint that answers returns only tagless rows
\* when no tag was requested, and only rows of the requested tag otherwise.
C18_NeverMixed ==
    leaderboard_response.status = 200 =>
        \A i \in 1..Len(leaderboard_response.rows) :
            leaderboard_response.rows[i].tag = leaderboard_response.tag

\* ---- update_glicko2_rating over ratings of every deviation in [30, 350]
InitRating ==
    /\ InitIdle
    /\ sample_rows = vote_catalog(AuthenticatedTestSet)
    /\ model_leaderboard = {}
    /\ use_priority = FALSE
    /\ comparison = {}
    /\ comparison_rank = {}
    /\ next_comparison_id = 1
    /\ processed_comparison = <<>>
    /\ applied = <<>>
    /\ glicko_rating \in [deviation : 30..350, volatility : Volatilities,
                          raw : {0}, call : {"none"}]

NextRating ==
    \E opponents \in OpponentLists, sigma_prime \in Volatilities :
        Rate(opponents, sigma_prime)

SpecRating == InitRating /\ [][NextRating]_vars

\* C17: after every update_glicko2_rating call on a rating whose deviation
\* is in [30, 350], with any opponent list, the deviation is in [30, 350].
C17_DeviationInBounds ==
    glicko_rating.deviation >= 30 /\ glicko_rating.deviation <= 350

\* an update with games computed a deviation above 350 and returned 350
C17_Witness ==
    /\ glicko_rating.call = "games"
    /\ glicko_rating.raw > 350
    /\ glicko_rating.deviation = 350

\* C21: the leaderboard mutations of a comparison processed by
\* glicko_calculation and its ProcessedComparison marker are committed
\* together or not at all: a leaderboard row that a step of a run commits
\* comes from a comparison whose marker is committed with it.
C21_MutationsWithMarker ==
    [][\A p \in Procs :
          (glicko_proc[p].kind = "run" /\ glicko_proc'[p] # glicko_proc[p]) =>
              \A x \in model_glicko_leaderboard' :
                  x.id \notin {y.id : y \in model_glicko_leaderboard} =>
                      processed_comparison'[x.created_for] > 0]_vars

\* C22: a glicko_calculation run that crashes before it has finished its
\* batch has committed nothing of the batch.
C22_BatchGranularity ==
    [][\A p \in Procs :
          (GlickoCrash(p) /\ glicko_proc[p].kind = "run"
                          /\ glicko_proc[p].batch # <<>>)
              => glicko_proc[p].processed_count = 0]_vars

\* C24: glicko_calculation applies comparisons in ascending comparison.id
\* order: the batch a run takes is the unprocessed comparisons with the
\* smallest ids, smallest first.
C24_AscendingIdOrder ==
    [][\A p \in Procs :
          GlickoLock(p) =>
              glicko_proc'[p].batch = earliest(unprocessed, GlickoBatchLimit)]_vars

\* C28: the Glicko-2 model leaderboard holds at most one row per key
\* (model, tag) of the one metric and test set of these runs, the tagless
\* key included.
C28_OneRowPerKey ==
    \A x, y \in model_glicko_leaderboard :
        (x.model = y.model /\ x.tag = y.tag) => x.id = y.id

\* ---- the priority bands
\* the band of a priority_score (in hundredths): 200, 150, 50, 10, or 0 for
\* the baseline
band(score) ==
    IF score >= 20000 THEN 200
    ELSE IF score >= 15000 THEN 150
    ELSE IF score >= 5000 THEN 50
    ELSE IF score >= 1000 THEN 10
    ELSE 0

\* the bands the model_priorities CTE gives to model m for test set T
assigned_bands(T, m) ==
    LET rows == avg_votes_rows(T)
    IN  {band(x) : x \in UNION {priority_scores(Cardinality(rows), SumVotes(rows),
                                                 r.vote_count) :
                                    r \in model_priority_rows(model_priorities(T), m)}}

\* the band from the tagless rows of metric M and test set T alone
band_of_metric(M, T, m) ==
    LET rows == {r \in model_leaderboard :
                    r.metric = M /\ r.test_set = T /\ r.tag = NoTag}
        mine == {r \in rows : r.model = m}
        v == IF mine = {} THEN 0 ELSE (CHOOSE r \in mine : TRUE).vote_count
    IN  {band(x) : x \in priority_scores(Cardinality(rows), SumVotes(rows), v)}

\* C29: in priority mode the band of every model in an answered batch
\* request for metric M and test set T is the band its vote count has
\* against the mean of the tagless rows of (M, T).
C29_BandFromMetricRows ==
    (last_batch.status = 200 /\ last_batch.priority) =>
        \A m \in ModelIds :
            assigned_bands(last_batch.test_set, m) =
                band_of_metric(last_batch.metric, last_batch.test_set, m)

\* ---- the Glicko-2 tasks over comparisons with a missing related entity
skipped_outcomes ==
    {o \in [1..NComparisons -> {"first", "tie", "none", "missing"}] :
        /\ \A c \in 1..(NComparisons - 1) : o[c] \in {"none", "missing"}
        /\ o[NComparisons] \in {"first", "tie"}}

InitSkip ==
    /\ InitIdle
    /\ glicko_rating = NoRating
    /\ sample_rows = vote_catalog(AuthenticatedTestSet)
    /\ model_leaderboard = {}
    /\ use_priority = FALSE
    /\ comparison = {[id |-> c, identity |-> "voter", metric |-> 1,
                      test_set |-> AuthenticatedTestSet] : c \in 1..NComparisons}
    /\ \E outcome \in skipped_outcomes :
         comparison_rank = UNION {vote_ranks(c, outcome[c]) : c \in 1..NComparisons}
    /\ next_comparison_id = NComparisons + 1
    /\ processed_comparison = [c \in 1..NComparisons |-> 0]
    /\ applied = [c \in 1..NComparisons |-> 0]

SpecSkip == InitSkip /\ [][NextGlicko]_vars

\* a comparison without rank rows, or with a ranked sample that no longer
\* exists
missing_entity(c) ==
    \/ ranks_of(c) = {}
    \/ \E k \in ranks_of(c) : k.sample \notin DOMAIN sample_rows

\* C23: a comparison with a missing related entity gets no
\* ProcessedComparison marker and changes no leaderboard row.
C23_SkippedWithoutMarker ==
    \A c \in comparison_ids :
        missing_entity(c) =>
            /\ processed_comparison[c] = 0
            /\ \A x \in model_glicko_leaderboard : x.created_for # c

\* ---- the Glicko-2 tasks over prompts that carry tags
\* specification.tag: tag 1 is scored, the other tags have calculate_score
\* false
tag_rows == [t \in TagIds |-> [calculate_score |-> t = 1]]

\* Every comparison is a win of sample 1 over sample 3; the two samples
\* are of one prompt, which carries the tags S.
InitTags ==
    /\ InitIdle
    /\ glicko_rating = NoRating
    /\ \E S \in SUBSET TagIds :
         sample_rows = [s \in SampleIds |->
                           [vote_catalog(AuthenticatedTestSet)[s]
                               EXCEPT !.prompt_tags = S]]
    /\ model_leaderboard = {}
    /\ use_priority = FALSE
    /\ comparison = {[id |-> c, identity |-> "voter", metric |-> 1,
                      test_set |-> AuthenticatedTestSet] : c \in 1..NComparisons}
    /\ comparison_rank = UNION {vote_ranks(c, "first") : c \in 1..NComparisons}
    /\ next_comparison_id = NComparisons + 1
    /\ processed_comparison = [c \in 1..NComparisons |-> 0]
    /\ applied = [c \in 1..NComparisons |-> 0]

SpecTags == InitTags /\ [][NextGlicko]_vars

\* C27: the Glicko-2 model leaderboard holds no tag-scoped row of a tag
\* whose calculate_score is false.
C27_OnlyScoredTags ==
    \A x \in model_glicko_leaderboard :
        x.tag # NoTag => tag_rows[x.tag].calculate_score

\* ---- the subjects of a comparison
\* scoring.sample_glicko_leaderboard and scoring.prompt_glicko_leaderboard:
\* process_comparison_for_glicko imports and writes ModelGlickoLeaderboard
\* alone, so both tables stay as they were created
sample_glicko_leaderboard == {}

prompt_glicko_leaderboard == {}

\* C26: once a comparison is processed, the tagless row of each of its six
\* subjects (the two models, the two samples, the prompts of the two
\* runs) exists and has counted a vote.
C26_SixSubjectsCounted ==
    \A c \in comparison_ids :
        processed_comparison[c] > 0 =>
            \A k \in ranks_of(c) :
                /\ \E x \in model_glicko_leaderboard :
                      /\ x.model = sample_rows[k.sample].model
                      /\ x.tag = NoTag
                      /\ x.vote_count >= 1
                /\ \E x \in sample_glicko_leaderboard :
                      x.sample = k.sample /\ x.tag = NoTag /\ x.vote_count >= 1
                /\ \E x \in prompt_glicko_leaderboard :
                      x.tag = NoTag /\ x.vote_count >= 1

\* ---- the two rating systems over the same comparisons
\* Committed votes, two elo_calculation tasks enqueued by post_comparison,
\* and a worker process that runs glicko_calculation.
InitSystems ==
    /\ leaderboard_response = NoResponse
    /\ lock_path = 0
    /\ inodes = 0
    /\ flock = [i \in Managers |-> 0]
    /\ manager = [m \in Managers |-> NewManager]
    /\ glicko_rating = NoRating
    /\ redis_tokens = <<>>
    /\ next_token = 0
    /\ last_batch = NoBatch
    /\ req = [r \in Reqs |-> IdleReq]
    /\ elo_key = TRUE
    /\ elo_epoch = 0
    /\ elo_queue = NComparisons
    /\ elo_worker = [w \in Workers |-> IdleWorker]
    /\ processed_elo = {}
    /\ glicko_key = FALSE
    /\ model_glicko_leaderboard = {}
    /\ glicko_proc = [p \in Procs |-> IdleProc]
    /\ sample_rows = vote_catalog(AuthenticatedTestSet)
    /\ model_leaderboard = {}
    /\ use_priority = FALSE
    /\ comparison = {[id |-> c, identity |-> "voter", metric |-> 1,
                      test_set |-> AuthenticatedTestSet] : c \in 1..NComparisons}
    /\ \E outcome \in [1..NComparisons -> {"first", "second", "tie"}] :
         comparison_rank = UNION {vote_ranks(c, outcome[c]) : c \in 1..NComparisons}
    /\ next_comparison_id = NComparisons + 1
    /\ processed_comparison = [c \in 1..NComparisons |-> 0]
    /\ applied = [c \in 1..NComparisons |-> 0]

NextSystems ==
    \/ \E w \in Workers : WorkerStep(w)
    \/ GlickoGet(1)
    \/ GlickoSetex(1)
    \/ GlickoLock(1)
    \/ ProcessLoad(1)
    \/ ProcessCommit(1)
    \/ GlickoFinish(1)

SpecSystems == InitSystems /\ [][NextSystems]_vars

\* what each system still has to process
elo_unprocessed ==
    LET rows == get_unprocessed_rows(NComparisons)
    IN  {rows[i] : i \in DOMAIN rows}

AcquireOpen(m) ==
    /\ manager[m].pc = "new"
    /\ LET i == IF lock_path = 0 THEN inodes + 1 ELSE lock_path
       IN  /\ lock_path' = i
           /\ inodes' = IF lock_path = 0 THEN inodes + 1 ELSE inodes
           /\ manager' = [manager EXCEPT ![m].pc = "flock", ![m].lockfile = i]
    /\ UNCHANGED <<flock, catalogVars, tokenVars, voteVars, eloVars, glickoVars,
                   ratingVars>>

\* acquire_lock, lines 39-50, and run, lines 114-119: LOCK_EX | LOCK_NB on
\* the open file; on EWOULDBLOCK the manager exits with status 1
AcquireFlock(m) ==
    /\ manager[m].pc = "flock"
    /\ IF flock[manager[m].lockfile] = 0
       THEN /\ flock' = [flock EXCEPT ![manager[m].lockfile] = m]
            /\ manager' = [manager EXCEPT ![m].pc = "running"]
       ELSE /\ manager' = [manager EXCEPT ![m].pc = "exited"]
            /\ UNCHANGED flock
    /\ UNCHANGED <<lock_path, inodes, catalogVars, tokenVars, voteVars, eloVars,
                   glickoVars, ratingVars>>

\* run, lines 122-125 and 133-143, with start_subprocess: a subprocess is
\* started when self.process is None or not alive
start_subprocess(m) ==
    /\ manager[m].pc = "running"
    /\ ~(manager[m].process /\ manager[m].live > 0)
    /\ manager' = [manager EXCEPT ![m].process = TRUE, ![m].live = @ + 1]
    /\ UNCHANGED <<lock_path, inodes, flock, catalogVars, tokenVars, voteVars,
                   eloVars, glickoVars, ratingVars>>

\* scheduler_loop returns after its loops, or fails
SubprocessExit(m) ==
    /\ manager[m].live > 0
    /\ manager' = [manager EXCEPT ![m].live = @ - 1]
    /\ UNCHANGED <<lock_path, inodes, flock, catalogVars, tokenVars, voteVars,
                   eloVars, glickoVars, ratingVars>>

\* handle_signal, lines 102-107, with terminate_subprocess: SIGTERM, then
\* SIGKILL, end the subprocess; self.process = None
handle_signal(m) ==
    /\ manager[m].pc = "running"
    /\ manager' = [manager EXCEPT ![m].pc = "unlock", ![m].process = FALSE,
                                  ![m].live = 0]
    /\ UNCHANGED <<lock_path, inodes, flock, catalogVars, tokenVars, voteVars,
                   eloVars, glickoVars, ratingVars>>

\* release_lock, lines 56-57: LOCK_UN and close
ReleaseUnlock(m) ==
    /\ manager[m].pc = "unlock"
    /\ flock' = [flock EXCEPT ![manager[m].lockfile] = 0]
    /\ manager' = [manager EXCEPT ![m].pc = "remove"]
    /\ UNCHANGED <<lock_path, inodes, catalogVars, tokenVars, voteVars, eloVars,
                   glickoVars, ratingVars>>

\* release_lock, lines 58-59: the file the path names now is removed; then
\* sys.exit(0)
ReleaseRemove(m) ==
    /\ manager[m].pc = "remove"
    /\ lock_path' = 0
    /\ manager' = [manager EXCEPT ![m].pc = "exited"]
    /\ UNCHANGED <<inodes, flock, catalogVars, tokenVars, voteVars, eloVars,
                   glickoVars, ratingVars>>

InitScheduler ==
    /\ InitIdle
    /\ glicko_rating = NoRating
    /\ sample_rows = vote_catalog(AuthenticatedTestSet)
    /\ model_leaderboard = {}
    /\ use_priority = FALSE
    /\ comparison = {}
    /\ comparison_rank = {}
    /\ next_comparison_id = 1
    /\ processed_comparison = <<>>
    /\ applied = <<>>

NextScheduler ==
    \/ \E m \in Managers : AcquireOpen(m)
    \/ \E m \in Managers : AcquireFlock(m)
    \/ \E m \in Managers : start_subprocess(m)
    \/ \E m \in Managers : SubprocessExit(m)
    \/ \E m \in Managers : handle_signal(m)
    \/ \E m \in Managers : ReleaseUnlock(m)
    \/ \E m \in Managers : ReleaseRemove(m)

SpecScheduler == InitScheduler /\ [][NextScheduler]_vars

\* the managers that hold the lock they took and have a live subprocess
scheduling ==
    {m \in Managers : /\ manager[m].pc = "running"
                      /\ flock[manager[m].lockfile] = m
                      /\ manager[m].live > 0}

\* C30: at most one manager holds the scheduler lock and runs a scheduler
\* subprocess, and no manager has more than one live subprocess.
C30_OneScheduler ==
    /\ Cardinality(scheduling) <= 1
    /\ \A m \in Managers : manager[m].live <= 1

====
